---- MODULE Spec2Model ----
(***************************************************************************)
(* A model of persim's multi_bottleneck (src/persim/multi_bottleneck.py):  *)
(* the bottleneck distance between two persistence diagrams by a binary    *)
(* search over the values of the augmented cost matrix D, each probe being *)
(* a max-flow feasibility test.                                            *)
(*                                                                         *)
(* Units.  Coordinates are integers counting tenths (the point (5, 8) of   *)
(* the source's scenarios is <<50, 80>>).  The code stores                 *)
(* 0.5 * (death - birth) in D; to stay in the integers every entry of D,   *)
(* every candidate d and bdist are held DOUBLED here: the model's value v  *)
(* stands for the code's v / 2 tenths, i.e. v / 20.  Doubling is monotone, *)
(* so it preserves np.unique, np.sort and every comparison D[i, j] <= d.   *)
(*                                                                         *)
(* Indices are the code's: rows and columns of D and graph nodes count     *)
(* from 0; TLA+ sequences count from 1, so point i of S is S[i + 1].       *)
(***************************************************************************)
EXTENDS Integers, Sequences, FiniteSets, TLC

(* Bounds of the model: the grid of coordinates, the finer grid of the     *)
(* diagrams of a single point, and the number of points of the two input   *)
(* diagrams together.                                                      *)
MaxCoord == 2
MaxLoneCoord == 4
MaxTotal == 4

(* A non-finite death time (np.inf), the value np.isfinite rejects.        *)
Inf == 1000000

IsFinite(x) == x # Inf

VARIABLES
    dgm1, dgm2, return_matching,   \* the arguments of the call
    pc,                            \* position in multi_bottleneck
    S, T, M, N,                    \* the filtered diagrams and their sizes
    warned,                        \* diagrams a warning was issued for
    D,                             \* the augmented cost matrix (doubled)
    ds, bdist, matching,           \* the state of the binary search
    graph, flow,                   \* the last graph built and its OptimalFlow()
    probes,                        \* number of graph.Solve calls so far
    k,                             \* number of distinct values of D
    outcome, matchidx              \* how the call ended and what it returned

vars == <<dgm1, dgm2, return_matching, pc, S, T, M, N, warned, D, ds, bdist,
          matching, graph, flow, probes, k, outcome, matchidx>>

----------------------------------------------------------------------------
(* Arithmetic helpers.                                                     *)

Abs(x) == IF x < 0 THEN -x ELSE x

Maximum(a, b) == IF a >= b THEN a ELSE b

SetMax(s) == CHOOSE x \in s : \A y \in s : y <= x

(* np.sort(np.unique(values)): the distinct values in increasing order.    *)
RECURSIVE SortedUnique(_)
SortedUnique(values) ==
    IF values = {} THEN << >>
    ELSE LET m == SetMax(values)
         IN  Append(SortedUnique(values \ {m}), m)

----------------------------------------------------------------------------
(* The inputs.                                                             *)

(* The grid points up to max, birth <= death, and one point that never    *)
(* dies.                                                                   *)
Points(max) ==
    {p \in (0 .. max) \X (0 .. max) : p[1] <= p[2]} \cup {<<0, Inf>>}

(* Diagrams of n grid points.  The code never reorders the points and every *)
(* step is equivariant under permuting them, so the points are listed in   *)
(* one fixed order (non-decreasing in birth, then death).                  *)
PointLeq(p, q) == p[1] < q[1] \/ (p[1] = q[1] /\ p[2] <= q[2])

GridDiagrams(n) ==
    IF n = 1 THEN {<<p>> : p \in Points(MaxLoneCoord)}
    ELSE {s \in [1 .. n -> Points(MaxCoord)] :
             \A i \in 1 .. n - 1 : PointLeq(s[i], s[i + 1])}

(* The diagrams of the documented scenario with different point counts.    *)
ScenarioA == <<<<0, 10>>, <<50, 80>>>>
ScenarioB == <<<<0, 11>>>>

Inputs ==
    {<<a, b>> : a \in {ScenarioA}, b \in {ScenarioB}} \cup
    UNION {UNION {GridDiagrams(m) \X GridDiagrams(n) : n \in 0 .. MaxTotal - m}
           : m \in 0 .. MaxTotal}

NoMatrix == << >>
NoGraph == << >>

Init ==
    /\ \E in \in Inputs : dgm1 = in[1] /\ dgm2 = in[2]
    /\ return_matching \in BOOLEAN
    /\ pc = "filter"
    /\ S = << >> /\ T = << >> /\ M = 0 /\ N = 0
    /\ warned = {}
    /\ D = NoMatrix
    /\ ds = << >> /\ bdist = 0 /\ matching = << >>
    /\ graph = NoGraph /\ flow = 0
    /\ probes = 0
    /\ k = 0
    /\ outcome = "running" /\ matchidx = << >>

----------------------------------------------------------------------------
(* Lines 51-77: drop the points whose death is not finite, warn, and put   *)
(* the placeholder point (0, 0) in place of an empty diagram.              *)

FiniteDeath(p) == IsFinite(p[2])

Filtered(dgm) == SelectSeq(dgm, FiniteDeath)

Placeholder == <<<<0, 0>>>>

OrPlaceholder(pts) == IF Len(pts) = 0 THEN Placeholder ELSE pts

Filter ==
    /\ pc = "filter"
    /\ S' = OrPlaceholder(Filtered(dgm1))
    /\ T' = OrPlaceholder(Filtered(dgm2))
    /\ M' = Len(S')
    /\ N' = Len(T')
    /\ warned' = (IF Len(Filtered(dgm1)) < Len(dgm1) THEN {"dgm1"} ELSE {}) \cup
                 (IF Len(Filtered(dgm2)) < Len(dgm2) THEN {"dgm2"} ELSE {})
    /\ pc' = "build"
    /\ UNCHANGED <<dgm1, dgm2, return_matching, D, ds, bdist, matching, graph,
                   flow, probes, k, outcome, matchidx>>

----------------------------------------------------------------------------
(* Lines 79-104: the augmented cost matrix.                                *)

(* 0.5 * (death - birth), doubled.                                         *)
HalfPers(p) == p[2] - p[1]

(* np.maximum(|Sb - Tb|, |Sd - Td|), doubled.                              *)
LInf(p, q) == 2 * Maximum(Abs(p[1] - q[1]), Abs(p[2] - q[2]))

(* numpy's rule for assigning a vector of length len to a slice of length  *)
(* n: the lengths agree, or a vector of length 1 is repeated; anything     *)
(* else raises ValueError.                                                 *)
CanBroadcast(len, n) == len = n \/ len = 1

BroadcastAt(vec, i) == IF Len(vec) = 1 THEN vec[1] ELSE vec[i + 1]

(* Line 95 without its factor 0.5: the bottom row takes the whole          *)
(* persistences of S.                                                      *)
BottomRowUnhalved(s, j) == 2 * HalfPers(BroadcastAt(s, j))

(* Line 95, D[M, :N] = 0.5 * (S[:, 1] - S[:, 0]): the bottom row takes the *)
(* half-persistences of S.                                                 *)
BottomRow(s, j) == HalfPers(BroadcastAt(s, j))

(* Line 100, D[:M, N] = 0.5 * (T[:, 1] - T[:, 0]): the last column takes   *)
(* the half-persistences of T.                                             *)
LastColumn(t, i) == HalfPers(BroadcastAt(t, i))

AugmentedMatrix(s, t) ==
    LET m == Len(s)
        n == Len(t)
    IN  [i \in 0 .. m |->
            [j \in 0 .. n |->
                IF i < m /\ j < n THEN LInf(s[i + 1], t[j + 1])
                ELSE IF i = m /\ j < n THEN BottomRow(s, j)
                ELSE IF i < m /\ j = n THEN LastColumn(t, i)
                ELSE 0]]

BuildD ==
    /\ pc = "build"
    /\ \/ /\ ~CanBroadcast(M, N)              \* line 95 raises
          /\ outcome' = "ValueError"
          /\ pc' = "done"
          /\ D' = D
       \/ /\ CanBroadcast(M, N)
          /\ ~CanBroadcast(N, M)              \* line 100 raises
          /\ outcome' = "ValueError"
          /\ pc' = "done"
          /\ D' = D
       \/ /\ CanBroadcast(M, N)
          /\ CanBroadcast(N, M)
          /\ D' = AugmentedMatrix(S, T)
          /\ pc' = "candidates"
          /\ outcome' = outcome
    /\ UNCHANGED <<dgm1, dgm2, return_matching, S, T, M, N, warned, ds, bdist,
                   matching, graph, flow, probes, k, matchidx>>

----------------------------------------------------------------------------
(* Lines 108-112: the candidate thresholds.                                *)

Entries(d) == {d[i][j] : i \in DOMAIN d, j \in DOMAIN d[0]}

(* np.sort(np.unique(D.flatten()))[0:-1]: every distinct value but the     *)
(* largest.                                                                *)
AllButLast(seq) == IF Len(seq) = 0 THEN seq ELSE SubSeq(seq, 1, Len(seq) - 1)

Candidates(d) == AllButLast(SortedUnique(Entries(d)))

InitSearch ==
    /\ pc = "candidates"
    /\ ds' = Candidates(D)
    /\ k' = Cardinality(Entries(D))
    /\ \/ /\ Len(ds') = 0                     \* line 109: ds[-1] of an empty array
          /\ outcome' = "IndexError"
          /\ pc' = "done"
          /\ bdist' = bdist
       \/ /\ Len(ds') >= 1
          /\ bdist' = ds'[Len(ds')]
          /\ pc' = "search"
          /\ outcome' = outcome
    /\ matching' = << >>
    /\ UNCHANGED <<dgm1, dgm2, return_matching, S, T, M, N, warned, D, graph,
                   flow, probes, matchidx>>

----------------------------------------------------------------------------
(* Lines 118-146: the feasibility graph at threshold d, as the sequence of *)
(* its arcs in the order of the AddArcWithCapacity calls.                  *)

Arc(tail, head, cap) == [tail |-> tail, head |-> head, cap |-> cap]

(* Line 127: the capacity of the arc joining the two diagonal nodes.       *)
DiagonalArcCap(multiS, multiT) == multiS

(* Line 145 with the capacity 1 of the other arcs of the source.           *)
SourceDiagonalCapUnit(multiS, multiT) == 1

(* Line 145: the capacity of the arc from the source to S_diagonal.        *)
SourceDiagonalCap(multiS, multiT) == multiS

(* Line 146: the capacity of the arc from T_diagonal to the sink.          *)
SinkDiagonalCap(multiS, multiT) == multiT

(* Line 125 with < in place of <=.                                         *)
WithinThresholdStrict(dij, d) == dij < d

(* Line 125: the arc (i, j) is in the graph.                               *)
WithinThreshold(dij, d) == dij <= d

(* Lines 123-129: the cells of D in row-major order, and their arcs.       *)
Cells(n0, n1) == [c \in 1 .. n0 * n1 |-> <<(c - 1) \div n1, (c - 1) % n1>>]

CellArc(cell, n0, n1, multiS, multiT) ==
    Arc(cell[1], cell[2] + n0,
        IF cell = <<n0 - 1, n1 - 1>> THEN DiagonalArcCap(multiS, multiT) ELSE 1)

MiddleArcs(mat, d, n0, n1, multiS, multiT) ==
    LET Kept(cell) == WithinThreshold(mat[cell[1]][cell[2]], d)
        kept == SelectSeq(Cells(n0, n1), Kept)
    IN  [a \in 1 .. Len(kept) |-> CellArc(kept[a], n0, n1, multiS, multiT)]

BuildGraph(mat, d, n0, n1, multiS, multiT) ==
    LET source == n0 + n1
        sink == n0 + n1 + 1
        T_diagonal == n0 + n1 - 1
        S_diagonal == n0 - 1
    IN  MiddleArcs(mat, d, n0, n1, multiS, multiT)
        \o [i \in 1 .. n0 - 1 |-> Arc(source, i - 1, 1)]
        \o [j \in 1 .. n1 - 1 |-> Arc(j - 1 + n0, sink, 1)]
        \o <<Arc(source, S_diagonal, SourceDiagonalCap(multiS, multiT)),
             Arc(T_diagonal, sink, SinkDiagonalCap(multiS, multiT))>>

----------------------------------------------------------------------------
(* Line 148, graph.Solve(source, sink): the max-flow solver.  The solver's *)
(* code is not part of the repository; it is taken by its contract: the    *)
(* flow it leaves in the graph is some integral maximum flow.  Every arc   *)
(* of the graph leaves the source, enters the sink, or joins a node fed by *)
(* the source to a node drained into the sink, so a flow is fixed by its   *)
(* values on the middle arcs.                                              *)

IsMiddle(arc, source, sink) == arc.tail # source /\ arc.head # sink

(* What the source can send to v, or v to the sink: the capacity of the    *)
(* arcs joining them.                                                      *)
RECURSIVE Capacity(_, _, _, _)
Capacity(g, tail, head, upto) ==
    IF upto = 0 THEN 0
    ELSE Capacity(g, tail, head, upto - 1)
         + (IF g[upto].tail = tail /\ g[upto].head = head THEN g[upto].cap ELSE 0)

Least(x, y, z) ==
    IF x <= y /\ x <= z THEN x ELSE IF y <= z THEN y ELSE z

(* The flows of g from arc a on, given the flow f on the arcs before a (0  *)
(* for now on an arc of the source or the sink), the amount sent so far    *)
(* and what each node can still pass on: a tail what the source can still  *)
(* send it, a head what it can still send to the sink.                     *)
RECURSIVE MiddleFlows(_, _, _, _, _, _, _)
MiddleFlows(g, source, sink, a, f, sent, room) ==
    IF a > Len(g) THEN {[flow |-> f, sent |-> sent, room |-> room]}
    ELSE IF ~IsMiddle(g[a], source, sink)
         THEN MiddleFlows(g, source, sink, a + 1, Append(f, 0), sent, room)
    ELSE UNION {MiddleFlows(g, source, sink, a + 1, Append(f, x), sent + x,
                            [room EXCEPT ![g[a].tail] = @ - x, ![g[a].head] = @ - x])
                : x \in 0 .. Least(g[a].cap, room[g[a].tail], room[g[a].head])}

(* Every flow of g.  Each node has one arc from the source or one arc to   *)
(* the sink, and what is left of that arc's capacity is the node's room.   *)
Flows(g, source, sink) ==
    MiddleFlows(g, source, sink, 1, << >>, 0,
                [v \in 0 .. source - 1 |->
                    IF \E a \in 1 .. Len(g) : g[a].tail = source /\ g[a].head = v
                    THEN Capacity(g, source, v, Len(g))
                    ELSE Capacity(g, v, sink, Len(g))])

(* Line 154, graph.OptimalFlow(): the value of a maximum flow.             *)
OptimalFlow(flows) == SetMax({f.sent : f \in flows})

(* graph.Flow(i) for every arc i: an arc from the source carries what its  *)
(* head sends on, an arc to the sink what its tail receives.               *)
FullFlow(g, source, sink, f) ==
    [a \in 1 .. Len(g) |->
        IF g[a].tail = source THEN g[a].cap - f.room[g[a].head]
        ELSE IF g[a].head = sink THEN g[a].cap - f.room[g[a].tail]
        ELSE f.flow[a]]

(* The flows graph.Flow(i) may report after Solve: the maximum flows.      *)
MaxFlows(g, source, sink, flows, optimal) ==
    {FullFlow(g, source, sink, f) : f \in {x \in flows : x.sent = optimal}}

(* Lines 149-152: res[Tail] = Head over the arcs of flow 1 that touch      *)
(* neither the source nor the sink, a later arc overwriting an earlier.    *)
Recorded(g, source, sink, f) ==
    {a \in 1 .. Len(g) : f[a] = 1 /\ g[a].tail # source /\ g[a].head # sink}

Res(g, source, sink, f) ==
    LET rec == Recorded(g, source, sink, f)
    IN  [v \in {g[a].tail : a \in rec} |->
            g[SetMax({a \in rec : g[a].tail = v})].head]

----------------------------------------------------------------------------
(* Lines 113-159: one iteration of the binary search.                      *)

(* bisect_left(a, x) on a sorted sequence: the number of elements < x.     *)
BisectLeft(a, x) == Cardinality({i \in 1 .. Len(a) : a[i] < x})

Range(n) == [i \in 1 .. n |-> i - 1]

(* Lines 114-116 without the bisection: the first candidate is probed.     *)
ProbeIndexFirst(size) == 0

(* Lines 114-116: the index probed in an array of the given size.          *)
ProbeIndex(size) == IF size > 1 THEN BisectLeft(Range(size), size \div 2) ELSE 0

(* Line 154: the probe at d counts as feasible.                            *)
Feasible(m, n, optimal, d, best) == m + n = optimal /\ d <= best

(* Python slices ds[0:idx] and ds[idx + 1::] of a 0-based array.           *)
Below(seq, idx) == SubSeq(seq, 1, idx)

Above(seq, idx) == SubSeq(seq, idx + 2, Len(seq))

Probe ==
    /\ pc = "search"
    /\ Len(ds) >= 1
    /\ LET n0 == M + 1
           n1 == N + 1
           source == n0 + n1
           sink == n0 + n1 + 1
       IN  \E idx \in {ProbeIndex(Len(ds))} :
           \E d \in {ds[idx + 1]} :
           \E g \in {BuildGraph(D, d, n0, n1, M, N)} :
           \E flows \in {Flows(g, source, sink)} :
           \E optimal \in {OptimalFlow(flows)} :
               /\ graph' = g
               /\ flow' = optimal
               /\ probes' = probes + 1
               /\ \/ /\ Feasible(M, N, optimal, d, bdist)
                     /\ bdist' = d
                     /\ \E f \in MaxFlows(g, source, sink, flows, optimal) :
                            matching' = Res(g, source, sink, f)
                     /\ ds' = Below(ds, idx)
                  \/ /\ ~Feasible(M, N, optimal, d, bdist)
                     /\ ds' = Above(ds, idx)
                     /\ UNCHANGED <<bdist, matching>>
    /\ pc' = IF Len(ds') >= 1 THEN "search" ELSE "return"
    /\ UNCHANGED <<dgm1, dgm2, return_matching, S, T, M, N, warned, D, k,
                   outcome, matchidx>>

----------------------------------------------------------------------------
(* Lines 161-177: the result, and the matching when it is asked for.       *)

(* D[i, j] with numpy's indexing: a negative index counts from the end.    *)
At(mat, i, j) ==
    LET rows == Cardinality(DOMAIN mat)
        cols == Cardinality(DOMAIN mat[0])
    IN  mat[IF i < 0 THEN i + rows ELSE i][IF j < 0 THEN j + cols ELSE j]

(* Lines 165-174 for one i: the row appended, or << >> when the pair is    *)
(* diagonal to diagonal.                                                   *)
MatchRow(mat, match, m, n, n1, i) ==
    LET j == match[i] - n1
        d == At(mat, i, j)
    IN  IF i < m THEN <<<<i, IF j >= n THEN -1 ELSE j, d>>>>
        ELSE IF j >= n THEN << >>
        ELSE <<<<-1, j, d>>>>

RECURSIVE MatchRows(_, _, _, _, _, _)
MatchRows(mat, match, m, n, n1, upto) ==
    IF upto = 0 THEN << >>
    ELSE MatchRows(mat, match, m, n, n1, upto - 1)
         \o MatchRow(mat, match, m, n, n1, upto - 1)

Return ==
    /\ pc = "return"
    /\ \/ /\ ~return_matching
          /\ outcome' = "ok"
          /\ matchidx' = matchidx
       \/ /\ return_matching
          /\ \E i \in 0 .. M + N - 1 : i \notin DOMAIN matching   \* line 165
          /\ outcome' = "KeyError"
          /\ matchidx' = matchidx
       \/ /\ return_matching
          /\ \A i \in 0 .. M + N - 1 : i \in DOMAIN matching
          /\ outcome' = "ok"
          /\ matchidx' = MatchRows(D, matching, M, N, N + 1, M + N)
    /\ pc' = "done"
    /\ UNCHANGED <<dgm1, dgm2, return_matching, S, T, M, N, warned, D, ds, bdist,
                   matching, graph, flow, probes, k>>

----------------------------------------------------------------------------
Next == Filter \/ BuildD \/ InitSearch \/ Probe \/ Return

Spec == Init /\ [][Next]_vars

----------------------------------------------------------------------------
(* The call as a function of its arguments, for the distance alone         *)
(* (matching = False): the steps above, composed.                          *)

(* Lines 113-159 run to the end of the loop: the final bdist.  (Values    *)
(* used more than once are bound by a quantifier over a singleton.)        *)
RECURSIVE Search(_, _, _, _, _)
Search(mat, m, n, cands, best) ==
    IF Len(cands) = 0 THEN best
    ELSE LET idx == ProbeIndex(Len(cands))
             source == m + n + 2
             sink == m + n + 3
             ok == \E d \in {cands[idx + 1]} :
                   \E g \in {BuildGraph(mat, d, m + 1, n + 1, m, n)} :
                       Feasible(m, n, OptimalFlow(Flows(g, source, sink)), d, best)
         IN  IF ok THEN Search(mat, m, n, Below(cands, idx), cands[idx + 1])
             ELSE Search(mat, m, n, Above(cands, idx), best)

(* The outcome of the call on the arguments a and b.                       *)
Outcomes(a, b) ==
    LET s == OrPlaceholder(Filtered(a))
        t == OrPlaceholder(Filtered(b))
        m == Len(s)
        n == Len(t)
    IN  IF ~(CanBroadcast(m, n) /\ CanBroadcast(n, m))
        THEN {[outcome |-> "ValueError", d |-> 0]}
        ELSE {IF Len(cands) = 0
              THEN [outcome |-> "IndexError", d |-> 0]
              ELSE [outcome |-> "ok",
                    d |-> Search(mat, m, n, cands, cands[Len(cands)])]
              : mat \in {AugmentedMatrix(s, t)},
                cands \in {Candidates(AugmentedMatrix(s, t))}}

Distance(a, b) == CHOOSE r \in Outcomes(a, b) : TRUE

----------------------------------------------------------------------------
(* What the claims speak of.                                               *)

Done == pc = "done"

Returned == pc = "done" /\ outcome = "ok"

Source == M + N + 2

Sink == M + N + 3

(* The graph built with the edge rule D[i, j] <= d admits a flow of value  *)
(* M + N.                                                                  *)
AdmitsPerfectFlow(d) ==
    \E g \in {BuildGraph(D, d, M + 1, N + 1, M, N)} :
        OptimalFlow(Flows(g, Source, Sink)) = M + N

(* The capacity of the arcs of g that leave (enter) node v.                *)
RECURSIVE CapacityOut(_, _, _)
CapacityOut(g, v, upto) ==
    IF upto = 0 THEN 0
    ELSE CapacityOut(g, v, upto - 1) + (IF g[upto].tail = v THEN g[upto].cap ELSE 0)

RECURSIVE CapacityIn(_, _, _)
CapacityIn(g, v, upto) ==
    IF upto = 0 THEN 0
    ELSE CapacityIn(g, v, upto - 1) + (IF g[upto].head = v THEN g[upto].cap ELSE 0)

(* The matrix the data model describes: the bottom row holds the           *)
(* half-persistences of diagram 2, the last column those of diagram 1.     *)
DescribedMatrix(s, t) ==
    LET m == Len(s)
        n == Len(t)
    IN  [i \in 0 .. m |->
            [j \in 0 .. n |->
                IF i < m /\ j < n THEN LInf(s[i + 1], t[j + 1])
                ELSE IF i = m /\ j < n THEN HalfPers(t[j + 1])
                ELSE IF i < m /\ j = n THEN HalfPers(s[i + 1])
                ELSE 0]]

(* The least e with 2^e >= n: ceil(log2(n)) for n >= 1.                    *)
RECURSIVE CeilLog2(_)
CeilLog2(n) == IF n <= 1 THEN 0 ELSE 1 + CeilLog2((n + 1) \div 2)

Costs(rows) == {rows[e][3] : e \in 1 .. Len(rows)}

AllFinite(dgm) == \A i \in 1 .. Len(dgm) : IsFinite(dgm[i][2])

----------------------------------------------------------------------------
(* C1: whenever the call returns, the distance returned is an entry of D   *)
(* at which the feasibility graph admits a flow of value M + N, and no     *)
(* strictly smaller entry of D does.                                       *)
C1_MinimumFeasibleThreshold ==
    (Returned /\ AllFinite(dgm1) /\ AllFinite(dgm2)) =>
        /\ bdist \in Entries(D)
        /\ AdmitsPerfectFlow(bdist)
        /\ \A e \in Entries(D) : e < bdist => ~AdmitsPerfectFlow(e)

(* C2: identity: a call on a diagram and itself ends by returning the      *)
(* distance 0, the empty diagram and diagrams on the diagonal included.    *)
C2_Identity ==
    (Done /\ dgm1 = dgm2) => (outcome = "ok" /\ bdist = 0)

(* C3: symmetry: the call on (dgm1, dgm2) and the call on (dgm2, dgm1) end *)
(* alike: a distance returned by the one is the distance returned by the   *)
(* other, and an error in computing the distance of the one is the same    *)
(* error of the other.                                                     *)
C3_Symmetry ==
    Done =>
        IF outcome = "ok"
        THEN Distance(dgm2, dgm1) = [outcome |-> "ok", d |-> bdist]
        ELSE ~return_matching => Distance(dgm2, dgm1).outcome = outcome

C3_Witness ==
    /\ Returned
    /\ M = 2
    /\ dgm1 # dgm2
    /\ bdist > 0

(* C4: a single finite point (b, d), b <= d, against the empty diagram     *)
(* gives (d - b) / 2 (in the doubled unit: d - b).                         *)
C4_LonePointAgainstEmpty ==
    (Done /\ Len(dgm1) = 1 /\ AllFinite(dgm1) /\ dgm2 = << >>) =>
        (outcome = "ok" /\ bdist = dgm1[1][2] - dgm1[1][1])

(* C5: the scenario dgm1 = [[0, 1], [5, 8]], dgm2 = [[0, 1.1]] completes   *)
(* and returns 1.5 (in the doubled unit of tenths: 30).                    *)
C5_ScenarioDifferentCounts ==
    (Done /\ dgm1 = ScenarioA /\ dgm2 = ScenarioB) =>
        (outcome = "ok" /\ bdist = 30)

(* C6: when a call with matching = True returns, the distance equals the   *)
(* largest third component (pairwise cost) of the rows of the matching.    *)
C6_DistanceIsLargestCost ==
    (Returned /\ return_matching) =>
        (matchidx # << >> /\ bdist = SetMax(Costs(matchidx)))

C6_Witness ==
    /\ Returned
    /\ return_matching
    /\ Len(matchidx) = 2
    /\ Cardinality(Costs(matchidx)) = 2

(* C7: a call with matching = True completes, and in the matching returned *)
(* every point of diagram 1 is in the first column of exactly one row,     *)
(* every point of diagram 2 in the second column of exactly one row, and   *)
(* no row is (-1, -1).                                                     *)
C7_MatchingCoversEveryPoint ==
    (Done /\ return_matching) =>
        /\ outcome = "ok"
        /\ \A i \in 0 .. M - 1 :
               Cardinality({e \in 1 .. Len(matchidx) : matchidx[e][1] = i}) = 1
        /\ \A j \in 0 .. N - 1 :
               Cardinality({e \in 1 .. Len(matchidx) : matchidx[e][2] = j}) = 1
        /\ \A e \in 1 .. Len(matchidx) :
               /\ matchidx[e][1] \in -1 .. M - 1
               /\ matchidx[e][2] \in -1 .. N - 1
               /\ ~(matchidx[e][1] = -1 /\ matchidx[e][2] = -1)

(* C8: the matrix built from the filtered diagrams has D[i, j] the L-inf   *)
(* distance, D[M, j] half the persistence of point j of diagram 2,         *)
(* D[i, N] half the persistence of point i of diagram 1, and D[M, N] = 0.  *)
C8_AugmentedMatrix ==
    D # NoMatrix => D = DescribedMatrix(S, T)

(* C9: in every feasibility graph built, the capacities of the arcs that   *)
(* leave the source and those of the arcs that enter the sink both sum to  *)
(* M + N.                                                                  *)
C9_CapacitiesBalanced ==
    graph # NoGraph =>
        /\ CapacityOut(graph, Source, Len(graph)) = M + N
        /\ CapacityIn(graph, Sink, Len(graph)) = M + N

C9_Witness ==
    /\ graph # NoGraph
    /\ M = 2
    /\ flow < M + N

(* C10: the search terminates: every iteration makes the candidate array  *)
(* strictly shorter, every step of the call lowers a rank that cannot fall *)
(* below 0, and the loop is entered only on a non-empty array; and the     *)
(* solver is invoked at most ceil(log2(k)) times, k the number of distinct *)
(* values of D.                                                            *)
Rank ==
    CASE pc = "filter" -> (Len(dgm1) + 2) * (Len(dgm2) + 2) + 5
      [] pc = "build" -> (M + 1) * (N + 1) + 4
      [] pc = "candidates" -> Cardinality(Entries(D)) + 3
      [] pc = "search" -> Len(ds) + 2
      [] pc = "return" -> 1
      [] pc = "done" -> 0

C10_SearchTerminates ==
    /\ [][pc = "search" => Len(ds') < Len(ds)]_vars
    /\ [][Rank' < Rank]_vars
    /\ [](pc = "search" => Len(ds) >= 1)
    /\ [](pc \in {"search", "return", "done"} => probes <= CeilLog2(k))

C10_Witness ==
    /\ Done
    /\ k = 3
    /\ probes = 2

====
